---- MODULE Spec2Model ----
\* Model of the DocumentUploadApp component (the KYC variant of
\* src/src/app/page.tsx lines 40-813, identical in logic to
\* src/unnamed/part_000, and the no-KYC variant of page.tsx lines 886-1510):
\* the component state held in useState cells, the user-triggered handlers,
\* the two asynchronous flows handleUpload and processKYC with their await
\* points, the setInterval progress timers, and the render conditions that
\* decide which controls the user can reach.
EXTENDS Integers, Sequences, FiniteSets, TLC

\* ---------------------------------------------------------------- bounds
MaxFiles == 2
MaxDocs == 2
MaxTimers == 2
MaxSelected == 50
MaxLeakFiles == 3

\* ------------------------------------------------------- values and inputs
\* A nullable value: Null is JavaScript null, Some(x) a set value.
Null == <<>>
Some(x) == <<x>>
IsNull(v) == v = Null
Val(v) == v[1]

\* Strings are sequences of one-character strings.
NameA == <<"a", ".", "P", "D", "F">>
NameASpace == <<"a", " ", ".", "P", "D", "F">>
NameTxt == <<"c", ".", "t", "x", "t">>

\* The File objects the picker or a drop can deliver: a name and a byte size.
\* A batch may hold the same entry twice: two files of one name and size,
\* dropped together from two folders.
FilePool ==
  { [name |-> NameA, size |-> 1],
    [name |-> NameASpace, size |-> 1],
    [name |-> NameTxt, size |-> 1] }

SeqsUpTo(S, n) == UNION { [1..k -> S] : k \in 0..n }

\* What one selection or one drop can deliver: one file or two.
Batches ==
  { <<f>> : f \in FilePool } \cup { <<f, g>> : f \in FilePool, g \in FilePool }

StatusTexts == { "Bad Request" }

Variants == { "kyc", "nokyc" }

\* ------------------------------------------------------ string functions
Whitespace == { " ", "\n", "\t" }

LowerOf(c) ==
  CASE c = "P" -> "p"
    [] c = "D" -> "d"
    [] c = "F" -> "f"
    [] OTHER -> c

toLowerCase(s) == [k \in 1..Len(s) |-> LowerOf(s[k])]

endsWith(s, suffix) ==
  /\ Len(s) >= Len(suffix)
  /\ SubSeq(s, Len(s) - Len(suffix) + 1, Len(s)) = suffix

DotPdf == <<".", "p", "d", "f">>

\* file.name, as it is
KeepWhitespace(s) == s

\* file.name.replace(/\s+/g, "")
StripWhitespace(s) ==
  LET NotWs(c) == c \notin Whitespace
  IN  SelectSeq(s, NotWs)

Range(s) == { s[k] : k \in 1..Len(s) }

NamesOf(fs) == [k \in 1..Len(fs) |-> fs[k].name]

\* jsonString.replace(/\n/g, "")
RemoveNewlines(s) ==
  LET NotNl(c) == c # "\n"
  IN  SelectSeq(s, NotNl)

RECURSIVE TrimLeft(_)
TrimLeft(s) ==
  IF Len(s) > 0 /\ Head(s) \in Whitespace THEN TrimLeft(Tail(s)) ELSE s

RECURSIVE TrimRight(_)
TrimRight(s) ==
  IF Len(s) > 0 /\ s[Len(s)] \in Whitespace
  THEN TrimRight(SubSeq(s, 1, Len(s) - 1))
  ELSE s

\* String.prototype.trim
trim(s) == TrimRight(TrimLeft(s))

\* (s.match(/c/g) || []).length
CountChar(s, c) == Cardinality({ k \in 1..Len(s) : s[k] = c })

\* "}".repeat(n)
RepeatBrace(n) == [k \in 1..n |-> "}"]

\* ------------------------------------------------- JavaScript object values
\* A JavaScript value built from JSON is kept as its set of leaves: pairs
\* <<path, scalar>>, a path being the sequence of steps from the root.  A step
\* is <<"k">> \o key for an object member and <<"i", digit>> for an array
\* element; a scalar is <<"s">> \o chars for a string, <<"n">> \o digits for a
\* number, <<"{}">> for an empty object and <<"[]">> for an empty array.
Key(chars) == <<"k">> \o chars
Str(chars) == { << <<>>, <<"s">> \o chars >> }
EmptyObject == { << <<>>, <<"{}">> >> }

\* obj with member key set to value v (an object literal member, or a spread
\* member overriding an earlier one).
Put(obj, key, v) ==
  { e \in obj : e[1] # <<>> /\ Head(e[1]) # key }
    \cup { << <<key>> \o e[1], e[2] >> : e \in v }

\* obj.key; the empty set stands for undefined.
Get(obj, key) ==
  { << Tail(e[1]), e[2] >> : e \in { x \in obj : x[1] # <<>> /\ Head(x[1]) = key } }

\* ------------------------------------------------------------- JSON.parse
\* JSON.parse over the alphabet of the modelled payloads: objects, arrays,
\* strings without escapes and non-negative integers, with insignificant
\* whitespace.  A parse result is [ok, pos, val]: pos the position after the
\* value, val its leaves below the given path.
JsonWs == { " ", "\t", "\n", "\r" }
Digits == <<"0", "1", "2", "3", "4", "5", "6", "7", "8", "9">>
IsDigit(c) == c \in Range(Digits)

Fail == [ok |-> FALSE, pos |-> 0, val |-> {}]
Ok(p, v) == [ok |-> TRUE, pos |-> p, val |-> v]

RECURSIVE SkipWs(_, _)
SkipWs(s, p) ==
  IF p <= Len(s) /\ s[p] \in JsonWs THEN SkipWs(s, p + 1) ELSE p

\* Position of the quote closing a string whose first character is at p, or
\* 0 when the string is unterminated or holds a raw control character.
RECURSIVE StringEnd(_, _)
StringEnd(s, p) ==
  IF p > Len(s) THEN 0
  ELSE IF s[p] = "\"" THEN p
  ELSE IF s[p] \in { "\n", "\t", "\r" } THEN 0
  ELSE StringEnd(s, p + 1)

\* Position after the number that starts at p (no leading zeros).
RECURSIVE DigitsEnd(_, _)
DigitsEnd(s, p) ==
  IF p <= Len(s) /\ IsDigit(s[p]) THEN DigitsEnd(s, p + 1) ELSE p

NumberEnd(s, p) == IF s[p] = "0" THEN p + 1 ELSE DigitsEnd(s, p)

HasPrefix(path, prefix) ==
  /\ Len(path) >= Len(prefix)
  /\ SubSeq(path, 1, Len(prefix)) = prefix

RECURSIVE ParseValue(_, _, _)
RECURSIVE ParseMembers(_, _, _, _)
RECURSIVE ParseElements(_, _, _, _, _)

ParseValue(s, p0, path) ==
  LET p == SkipWs(s, p0)
  IN  IF p > Len(s) THEN Fail
      ELSE IF s[p] = "\""
        THEN LET q == StringEnd(s, p + 1)
             IN  IF q = 0 THEN Fail
                 ELSE Ok(q + 1, { <<path, <<"s">> \o SubSeq(s, p + 1, q - 1)>> })
      ELSE IF IsDigit(s[p])
        THEN LET q == NumberEnd(s, p)
             IN  Ok(q, { <<path, <<"n">> \o SubSeq(s, p, q - 1)>> })
      ELSE IF s[p] = "{"
        THEN LET q == SkipWs(s, p + 1)
             IN  IF q <= Len(s) /\ s[q] = "}"
                 THEN Ok(q + 1, { <<path, <<"{}">>>> })
                 ELSE ParseMembers(s, q, path, {})
      ELSE IF s[p] = "["
        THEN LET q == SkipWs(s, p + 1)
             IN  IF q <= Len(s) /\ s[q] = "]"
                 THEN Ok(q + 1, { <<path, <<"[]">>>> })
                 ELSE ParseElements(s, q, path, 0, {})
      ELSE Fail

\* The members of an object after its opening brace; a repeated key keeps
\* its last value.
ParseMembers(s, p0, path, acc) ==
  LET p == SkipWs(s, p0)
  IN  IF p > Len(s) \/ s[p] # "\"" THEN Fail
      ELSE LET q == StringEnd(s, p + 1)
           IN  IF q = 0 THEN Fail
               ELSE LET sub == Append(path, Key(SubSeq(s, p + 1, q - 1)))
                        c == SkipWs(s, q + 1)
                    IN  IF c > Len(s) \/ s[c] # ":" THEN Fail
                        ELSE LET r == ParseValue(s, c + 1, sub)
                             IN  IF ~r.ok THEN Fail
                                 ELSE LET acc2 == { x \in acc : ~HasPrefix(x[1], sub) }
                                                    \cup r.val
                                          d == SkipWs(s, r.pos)
                                      IN  IF d > Len(s) THEN Fail
                                          ELSE IF s[d] = "}" THEN Ok(d + 1, acc2)
                                          ELSE IF s[d] = ","
                                            THEN ParseMembers(s, d + 1, path, acc2)
                                          ELSE Fail

\* The elements of an array after its opening bracket.
ParseElements(s, p0, path, idx, acc) ==
  LET r == ParseValue(s, p0, Append(path, <<"i", Digits[idx + 1]>>))
  IN  IF ~r.ok THEN Fail
      ELSE LET acc2 == acc \cup r.val
               d == SkipWs(s, r.pos)
           IN  IF d > Len(s) THEN Fail
               ELSE IF s[d] = "]" THEN Ok(d + 1, acc2)
               ELSE IF s[d] = "," THEN ParseElements(s, d + 1, path, idx + 1, acc2)
               ELSE Fail

\* JSON.parse(s): the whole text must be one value; ok = FALSE is the
\* SyntaxError.
JSONparse(s) ==
  LET r == ParseValue(s, 1, <<>>)
  IN  IF r.ok /\ SkipWs(s, r.pos) = Len(s) + 1 THEN r ELSE Fail

\* ---------------------------------------------------- modelled server data
Quote == "\""

\* Strings the /process_docs response can carry, one per document.
DocValid == <<"{", Quote, "a", Quote, ":", "1", "}">>
DocTruncated == <<"{", Quote, "a", Quote, ":", "1">>
DocGarbage == <<"x", "\n">>

RespStrings == { DocValid, DocGarbage }

\* Further response strings: an object inside an object behind a newline, a
\* string value that holds a brace character, and a payload with a member
\* named type.
DocNested ==
  <<"\n", "{", Quote, "a", Quote, ":", "{", Quote, "b", Quote, ":", "1", "}", "}">>
DocBrace(brace) == <<"{", Quote, "a", Quote, ":", Quote, brace, Quote, "}">>
DocTyped == <<"{", Quote, "t", "y", "p", "e", Quote, ":", Quote, "x", Quote, "}">>

\* Response strings cut short: full is a complete JSON text, of which the
\* last `missing` characters, all closing braces, did not arrive.
CutShort ==
  { [full |-> DocValid, missing |-> 0], [full |-> DocValid, missing |-> 1],
    [full |-> DocNested, missing |-> 2], [full |-> DocBrace("}"), missing |-> 1],
    [full |-> DocBrace("{"), missing |-> 0] }

Received(c) == SubSeq(c.full, 1, Len(c.full) - c.missing)

\* A payload with a red_flags member: an array of one element, an empty
\* array, or a string.
FlagValues == { <<"[", "1", "]">>, <<"[", "]">>, <<Quote, "x", Quote>> }

DocRedFlags(value) ==
  <<"{", Quote, "r", "e", "d", "_", "f", "l", "a", "g", "s", Quote, ":">>
    \o value \o <<"}">>

IngestStrings ==
  { Received(c) : c \in CutShort } \cup { DocGarbage, DocTyped }
    \cup { DocRedFlags(v) : v \in FlagValues }

KeyMessage == Key(<<"m", "e", "s", "s", "a", "g", "e">>)
KeyKycData == Key(<<"k", "y", "c", "_", "d", "a", "t", "a">>)
KeyFilename == Key(<<"f", "i", "l", "e", "n", "a", "m", "e">>)
KeyType == Key(<<"t", "y", "p", "e">>)
KeyData == Key(<<"d", "a", "t", "a">>)
KeyRawData == Key(<<"r", "a", "w", "_", "d", "a", "t", "a">>)
KeyRedFlags == Key(<<"r", "e", "d", "_", "f", "l", "a", "g", "s">>)
KeyError == Key(<<"e", "r", "r", "o", "r">>)

\* Bodies of a successful /process_kyc response.
KycBodies ==
  { Put(Put(EmptyObject, KeyMessage, Str(<<"o", "k">>)), KeyKycData, EmptyObject) }

\* JSON bodies of a failed /process_kyc response.
KycErrorBodies ==
  { Put(EmptyObject, KeyMessage, Str(<<"b", "a", "d">>)), EmptyObject }

\* ------------------------------------------------------------------ state
VARIABLES
  variant,            \* which iteration of the component is mounted
  files,              \* useState<File[]>
  isUploading,
  isProcessing,
  progress,
  extractedData,      \* ExtractedData | null
  kycResult,          \* KYCResult | null
  error,              \* string | null, a string being a sequence of chunks
  isDragOver,
  uploadedFiles,
  showJson,           \* the keys of showJson that are true
  isProcessingKyc,
  processingStep,
  upPc,               \* where the handleUpload run is suspended
  runFiles,           \* the files array captured by the run's closure
  i,                  \* loop index of the run (0-based)
  uploadedFileNames,  \* local array of the run
  processInterval,    \* timer id held by the handleUpload run, 0 if none
  kycPc,              \* where the processKYC call is suspended
  kycInterval,        \* timer id held by the processKYC call, 0 if none
  kycResponse,        \* the Response the processKYC call holds
  timers,             \* live setInterval timers: [id, step]
  nextTimer,          \* id the next setInterval returns
  outstanding,        \* requests on the wire, per endpoint
  uploadLog,          \* files posted to /upload by the current run
  processLog,         \* list_of_doc bodies posted by the current run
  kycLog              \* bodies posted to /process_kyc for the documents on display

vars ==
  << variant, files, isUploading, isProcessing, progress, extractedData,
     kycResult, error, isDragOver, uploadedFiles, showJson, isProcessingKyc,
     processingStep, upPc, runFiles, i, uploadedFileNames, processInterval,
     kycPc, kycInterval, kycResponse, timers, nextTimer, outstanding,
     uploadLog, processLog, kycLog >>

uiVars ==
  << files, isUploading, isProcessing, progress, extractedData, kycResult,
     error, isDragOver, uploadedFiles, showJson, isProcessingKyc,
     processingStep >>

uploadRunVars == << upPc, runFiles, i, uploadedFileNames, processInterval >>
kycRunVars == << kycPc, kycInterval, kycResponse >>
logVars == << uploadLog, processLog >>

NoRequests == [upload |-> 0, process_docs |-> 0, process_kyc |-> 0]
NoResponse == [ok |-> FALSE, statusText |-> ""]

Init ==
  /\ variant \in Variants
  /\ files = <<>>
  /\ isUploading = FALSE
  /\ isProcessing = FALSE
  /\ progress = 0
  /\ extractedData = Null
  /\ kycResult = Null
  /\ error = Null
  /\ isDragOver = FALSE
  /\ uploadedFiles = <<>>
  /\ showJson = {}
  /\ isProcessingKyc = FALSE
  /\ processingStep = "upload"
  /\ upPc = "idle"
  /\ runFiles = <<>>
  /\ i = 0
  /\ uploadedFileNames = <<>>
  /\ processInterval = 0
  /\ kycPc = "idle"
  /\ kycInterval = 0
  /\ kycResponse = NoResponse
  /\ timers = {}
  /\ nextTimer = 1
  /\ outstanding = NoRequests
  /\ uploadLog = <<>>
  /\ processLog = <<>>
  /\ kycLog = <<>>

\* ------------------------------------------------------ render conditions
\* Which panel and which footer controls the current state renders; a handler
\* can be triggered only through a control that is rendered and not disabled.
\* A selection panel that stays up while a run is under way.
IdlePanelWhileBusy ==
  IF variant = "kyc"
  THEN IsNull(extractedData) /\ IsNull(kycResult)
  ELSE IsNull(extractedData)

IdlePanel ==
  IF variant = "kyc"
  THEN /\ ~isUploading /\ ~isProcessing /\ ~isProcessingKyc
       /\ IsNull(extractedData) /\ IsNull(kycResult)
  ELSE ~isUploading /\ ~isProcessing /\ IsNull(extractedData)

BusyPanel ==
  IF variant = "kyc"
  THEN isUploading \/ isProcessing \/ isProcessingKyc
  ELSE isUploading \/ isProcessing

\* The extracted-data condition without its !isProcessingKyc conjunct.
ExtractedPanelWhileKyc ==
  IF variant = "kyc"
  THEN ~IsNull(extractedData) /\ IsNull(kycResult)
  ELSE ~IsNull(extractedData)

\* extractedData && !kycResult && !isProcessingKyc
ExtractedPanel ==
  IF variant = "kyc"
  THEN ~IsNull(extractedData) /\ IsNull(kycResult) /\ ~isProcessingKyc
  ELSE ~IsNull(extractedData)

KycPanel == variant = "kyc" /\ ~IsNull(kycResult)

\* CardFooter: the three branches of the footer's conditional.
FooterSelect ==
  IF variant = "kyc"
  THEN IsNull(extractedData) /\ IsNull(kycResult)
  ELSE IsNull(extractedData)

FooterKyc == variant = "kyc" /\ ~FooterSelect /\ IsNull(kycResult)

FooterDone == ~FooterSelect /\ ~FooterKyc

\* The Clear and Upload buttons disabled on an empty list only.
SelectDisabledWhenEmpty == Len(files) = 0

\* The Clear and Upload buttons disabled while a message is shown, too.
SelectDisabledOnError ==
  isUploading \/ isProcessing \/ Len(files) = 0 \/ ~IsNull(error)

\* The Clear and Upload buttons enabled again once the uploads are through.
SelectDisabledWhileUploading == isUploading \/ Len(files) = 0

\* disabled={isUploading || isProcessing || files.length === 0}
SelectDisabled == isUploading \/ isProcessing \/ Len(files) = 0

UploadEnabled == FooterSelect /\ ~SelectDisabled

ResetEnabled == (FooterSelect /\ ~SelectDisabled) \/ FooterKyc \/ FooterDone

ProcessKycEnabled == FooterKyc /\ ~isProcessingKyc

\* getProcessingTitle
getProcessingTitle ==
  CASE processingStep = "upload" -> "Uploading your documents..."
    [] processingStep = "extract" -> "Processing your documents..."
    [] processingStep = "kyc" -> "Performing KYC analysis..."
    [] OTHER -> "Processing..."

\* ---------------------------------------------------------- file selection
FilterWarning == <<"Only PDF files are supported. Some files were filtered out.">>

\* A filter that lets every file through.
AnyName(file) == TRUE

IsPdf(file) == endsWith(toLowerCase(file.name), DotPdf)

uniqueNewFiles(newFiles) ==
  LET Fresh(f) == f.name \notin Range(NamesOf(files))
  IN  SelectSeq(newFiles, Fresh)

pdfFiles(newFiles) == SelectSeq(uniqueNewFiles(newFiles), IsPdf)

\* addFiles(newFiles): the state change shared by the picker and the drop.
addFiles(newFiles) ==
  /\ Len(files) + Len(pdfFiles(newFiles)) <= MaxFiles
  /\ error' = IF Len(pdfFiles(newFiles)) < Len(uniqueNewFiles(newFiles))
              THEN Some(FilterWarning)
              ELSE error
  /\ files' = files \o pdfFiles(newFiles)

\* handleFileChange: the file picker delivered a non-empty selection.
handleFileChange(newFiles) ==
  /\ IdlePanel
  /\ addFiles(newFiles)
  /\ UNCHANGED << variant, isUploading, isProcessing, progress, extractedData,
                  kycResult, isDragOver, uploadedFiles, showJson,
                  isProcessingKyc, processingStep, uploadRunVars, kycRunVars,
                  timers, nextTimer, outstanding, logVars, kycLog >>

handleDragOver ==
  /\ IdlePanel
  /\ isDragOver' = TRUE
  /\ UNCHANGED << variant, files, isUploading, isProcessing, progress,
                  extractedData, kycResult, error, uploadedFiles, showJson,
                  isProcessingKyc, processingStep, uploadRunVars, kycRunVars,
                  timers, nextTimer, outstanding, logVars, kycLog >>

handleDragLeave ==
  /\ IdlePanel
  /\ isDragOver' = FALSE
  /\ UNCHANGED << variant, files, isUploading, isProcessing, progress,
                  extractedData, kycResult, error, uploadedFiles, showJson,
                  isProcessingKyc, processingStep, uploadRunVars, kycRunVars,
                  timers, nextTimer, outstanding, logVars, kycLog >>

handleDrop(droppedFiles) ==
  /\ IdlePanel
  /\ isDragOver' = FALSE
  /\ IF Len(droppedFiles) > 0
     THEN addFiles(droppedFiles)
     ELSE UNCHANGED << files, error >>
  /\ UNCHANGED << variant, isUploading, isProcessing, progress, extractedData,
                  kycResult, uploadedFiles, showJson, isProcessingKyc,
                  processingStep, uploadRunVars, kycRunVars, timers, nextTimer,
                  outstanding, logVars, kycLog >>

\* A filter on the name of the row's file instead of its index.
RemoveByName(fs, indexToRemove) ==
  LET Other(f) == f.name # fs[indexToRemove + 1].name
  IN  IF indexToRemove + 1 \in 1..Len(fs) THEN SelectSeq(fs, Other) ELSE fs

\* prevFiles.filter((_, index) => index !== indexToRemove), 0-based index.
RemoveAt(fs, indexToRemove) ==
  LET keep == { k \in 1..Len(fs) : k - 1 # indexToRemove }
      Nth(n) == CHOOSE k \in keep : Cardinality({ j \in keep : j < k }) = n - 1
  IN  [n \in 1..Cardinality(keep) |-> fs[Nth(n)]]

\* handleRemoveFile: the remove button of row indexToRemove.
handleRemoveFile(indexToRemove) ==
  /\ IdlePanel
  /\ indexToRemove \in 0..(Len(files) - 1)
  /\ files' = RemoveAt(files, indexToRemove)
  /\ UNCHANGED << variant, isUploading, isProcessing, progress, extractedData,
                  kycResult, error, isDragOver, uploadedFiles, showJson,
                  isProcessingKyc, processingStep, uploadRunVars, kycRunVars,
                  timers, nextTimer, outstanding, logVars, kycLog >>

\* The reset of the iteration without the KYC step, which knows nothing of
\* kycResult, showJson and processingStep.
handleResetOlder ==
  /\ ResetEnabled
  /\ files' = <<>>
  /\ extractedData' = Null
  /\ progress' = 0
  /\ error' = Null
  /\ uploadedFiles' = <<>>
  /\ kycLog' = <<>>
  /\ UNCHANGED << variant, isUploading, isProcessing, isDragOver,
                  isProcessingKyc, uploadRunVars, kycRunVars, timers, nextTimer,
                  outstanding, logVars, kycResult, showJson, processingStep >>

\* A reset that takes the busy flags down as well.
handleResetClearsBusy ==
  /\ ResetEnabled
  /\ files' = <<>>
  /\ extractedData' = Null
  /\ progress' = 0
  /\ error' = Null
  /\ uploadedFiles' = <<>>
  /\ kycResult' = Null
  /\ showJson' = {}
  /\ processingStep' = "upload"
  /\ isUploading' = FALSE
  /\ isProcessing' = FALSE
  /\ isProcessingKyc' = FALSE
  /\ kycLog' = <<>>
  /\ UNCHANGED << variant, isDragOver, uploadRunVars, kycRunVars, timers,
                  nextTimer, outstanding, logVars >>

\* A reset that aborts the processKYC call under way.
handleResetCancels ==
  /\ ResetEnabled
  /\ files' = <<>>
  /\ extractedData' = Null
  /\ progress' = 0
  /\ error' = Null
  /\ uploadedFiles' = <<>>
  /\ kycResult' = Null
  /\ showJson' = {}
  /\ processingStep' = "upload"
  /\ isProcessingKyc' = FALSE
  /\ kycPc' = "idle"
  /\ kycInterval' = 0
  /\ kycResponse' = NoResponse
  /\ timers' = { t \in timers : t.id # kycInterval }
  /\ outstanding' = [outstanding EXCEPT !.process_kyc = 0]
  /\ kycLog' = <<>>
  /\ UNCHANGED << variant, isUploading, isProcessing, isDragOver,
                  uploadRunVars, nextTimer, logVars >>

\* handleReset: Clear / Upload New Documents.
handleReset ==
  /\ ResetEnabled
  /\ files' = <<>>
  /\ extractedData' = Null
  /\ progress' = 0
  /\ error' = Null
  /\ uploadedFiles' = <<>>
  /\ IF variant = "kyc"
     THEN /\ kycResult' = Null
          /\ showJson' = {}
          /\ processingStep' = "upload"
     ELSE UNCHANGED << kycResult, showJson, processingStep >>
  /\ kycLog' = <<>>
  /\ UNCHANGED << variant, isUploading, isProcessing, isDragOver,
                  isProcessingKyc, uploadRunVars, kycRunVars, timers, nextTimer,
                  outstanding, logVars >>

\* toggleJson(index) and the raw-KYC-data toggle: flip one key of showJson.
Toggle(key) == IF key \in showJson THEN showJson \ {key} ELSE showJson \cup {key}

toggleJson(index) ==
  /\ variant = "kyc"
  /\ ExtractedPanel
  /\ index \in 0..(Len(Val(extractedData).documents) - 1)
  /\ showJson' = Toggle(<<"doc", index>>)
  /\ UNCHANGED << variant, files, isUploading, isProcessing, progress,
                  extractedData, kycResult, error, isDragOver, uploadedFiles,
                  isProcessingKyc, processingStep, uploadRunVars, kycRunVars,
                  timers, nextTimer, outstanding, logVars, kycLog >>

toggleKycData ==
  /\ KycPanel
  /\ showJson' = Toggle(<<"kycData", 0>>)
  /\ UNCHANGED << variant, files, isUploading, isProcessing, progress,
                  extractedData, kycResult, error, isDragOver, uploadedFiles,
                  isProcessingKyc, processingStep, uploadRunVars, kycRunVars,
                  timers, nextTimer, outstanding, logVars, kycLog >>

\* ------------------------------------------------------------- the network
Send(endpoint) == [outstanding EXCEPT ![endpoint] = @ + 1]
Receive(endpoint) == [outstanding EXCEPT ![endpoint] = @ - 1]

\* What a fetch of /upload or /process_docs can end in, seen from the code:
\* a success status with a JSON body, a success status whose body is not JSON
\* (response.json() rejects), a non-success status, or a rejected fetch.
Outcomes == { "ok", "ok_not_json", "not_ok", "throw" }

FetchFailed == <<"Failed to fetch">>
NotJson == <<"Unexpected token < in JSON at position 0">>
NoMap == <<"Cannot read properties of undefined (reading 'map')">>

\* ---------------------------------------------------------------- timers
\* setInterval(() => setProgress(prev => prev >= 95 ? (clearInterval, prev)
\* : prev + step), 500)
UploadStep == 5
KycStep == 10
TimerCeiling == 95

\* setInterval: a new live timer under the next id.
StartTimer(step) == timers \cup { [id |-> nextTimer, step |-> step] }

\* clearInterval(id)
ClearTimer(ts, id) == { t \in ts : t.id # id }

\* One firing of a live timer.
TimerTick(t) ==
  /\ t \in timers
  /\ IF progress >= TimerCeiling
     THEN /\ timers' = ClearTimer(timers, t.id)
          /\ UNCHANGED progress
     ELSE /\ progress' = progress + t.step
          /\ UNCHANGED timers
  /\ UNCHANGED << variant, files, isUploading, isProcessing, extractedData,
                  kycResult, error, isDragOver, uploadedFiles, showJson,
                  isProcessingKyc, processingStep, uploadRunVars, kycRunVars,
                  nextTimer, outstanding, logVars, kycLog >>

\* ------------------------------------------------------------ handleUpload
NoFilesSelected == <<"Please select at least one PDF file to upload">>

\* ------------------------------------------------- Number arithmetic
\* JavaScript Numbers are IEEE 754 binary64 values.  A positive Number is
\* [m, e]: m the 53 bits of its significand, most significant (a 1) first,
\* and value 0.m * 2^e.  Long bit strings are worked on in limbs of 14 bits.
SignificandBits == 53
LimbBits == 14
Limb == 2 ^ LimbBits

RECURSIVE BitsToNat(_)
BitsToNat(bits) ==
  IF bits = <<>> THEN 0
  ELSE 2 * BitsToNat(SubSeq(bits, 1, Len(bits) - 1)) + bits[Len(bits)]

\* The w bits of v, most significant first.
NatToBits(v, w) == [j \in 1..w |-> (v \div (2 ^ (w - j))) % 2]

PadLeft(x, n) == [j \in 1..(n - Len(x)) |-> 0] \o x

StripZeros(x) ==
  IF \A j \in 1..Len(x) : x[j] = 0 THEN <<>>
  ELSE LET first == CHOOSE j \in 1..Len(x) :
                      x[j] = 1 /\ \A u \in 1..(j - 1) : x[u] = 0
       IN  SubSeq(x, first, Len(x))

RECURSIVE Normalise(_, _, _)
\* a/d scaled by a power of two into [1/2, 1): a/d * 2^e is the value given.
Normalise(a, d, e) ==
  IF a >= d THEN Normalise(a, 2 * d, e + 1)
  ELSE IF 2 * a < d THEN Normalise(2 * a, d, e - 1)
  ELSE [a |-> a, d |-> d, e |-> e]

RECURSIVE DivBits(_, _, _)
\* The first n limbs of the binary expansion of r/d (0 <= r < d), and what
\* is left of the numerator.
DivBits(r, d, n) ==
  IF n = 0 THEN [bits |-> <<>>, rem |-> r]
  ELSE LET rest == DivBits((r * Limb) % d, d, n - 1)
       IN  [bits |-> NatToBits((r * Limb) \div d, LimbBits) \o rest.bits,
            rem |-> rest.rem]

\* bits + 1, with the carry out of the top bit.
IncBits(bits) ==
  IF \A j \in 1..Len(bits) : bits[j] = 1
  THEN [bits |-> [j \in 1..Len(bits) |-> 0], carry |-> 1]
  ELSE LET last == CHOOSE j \in 1..Len(bits) :
                     bits[j] = 0 /\ \A u \in (j + 1)..Len(bits) : bits[u] = 1
       IN  [bits |-> [j \in 1..Len(bits) |->
                        IF j < last THEN bits[j] ELSE IF j = last THEN 1 ELSE 0],
            carry |-> 0]

\* Round to nearest, ties to even: bits (a leading 1, at least 54 of them)
\* and sticky (something non-zero lies beyond bits) are the exact value
\* 0.bits... * 2^e.
RoundToNearestEven(bits, sticky, e) ==
  LET kept == SubSeq(bits, 1, SignificandBits)
      guard == bits[SignificandBits + 1]
      beyond == sticky \/ \E j \in (SignificandBits + 2)..Len(bits) : bits[j] = 1
      up == guard = 1 /\ (beyond \/ kept[SignificandBits] = 1)
      inc == IncBits(kept)
  IN  IF ~up THEN [m |-> kept, e |-> e]
      ELSE IF inc.carry = 1
        THEN [m |-> <<1>> \o [j \in 1..(SignificandBits - 1) |-> 0], e |-> e + 1]
        ELSE [m |-> inc.bits, e |-> e]

\* a / b for integers a, b >= 1.
Divide(a, b) ==
  LET n == Normalise(a, b, 0)
      q == DivBits(n.a, n.d, 4)
  IN  RoundToNearestEven(q.bits, q.rem # 0, n.e)

RECURSIVE TimesLimbs(_, _, _)
\* x * c + carry, x a whole number of limbs, c an integer >= 0.
TimesLimbs(x, c, carry) ==
  IF x = <<>> THEN NatToBits(carry, LimbBits)
  ELSE LET n == Len(x)
           t == BitsToNat(SubSeq(x, n - LimbBits + 1, n)) * c + carry
       IN  TimesLimbs(SubSeq(x, 1, n - LimbBits), c, t \div Limb)
             \o NatToBits(t % Limb, LimbBits)

\* The bit string of x * c, c an integer between 0 and Limb.
TimesBits(x, c) ==
  LET limbs == (Len(x) + LimbBits - 1) \div LimbBits
  IN  StripZeros(TimesLimbs(PadLeft(x, limbs * LimbBits), c, 0))

\* x * c for a Number x and an integer c >= 1 (which is a Number itself, so
\* that the product is the exact one, rounded).
Times(x, c) ==
  LET p == TimesBits(x.m, c)
  IN  RoundToNearestEven(p \o <<0>>, FALSE, x.e + Len(p) - SignificandBits)

\* Math.floor(x) for a Number x below 2^31.
MathFloor(x) == IF x.e <= 0 THEN 0 ELSE BitsToNat(SubSeq(x.m, 1, x.e))

\* Math.floor(((i + 1) / files.length) * 50) for every length of list and
\* every completed = i + 1, worked out once.
ProgressTable ==
  [total \in 1..MaxSelected |->
     [completed \in 1..total |-> MathFloor(Times(Divide(completed, total), 50))]]

singleFileProgress(completed, total) == ProgressTable[total][completed]

\* A loop that stops one file early.
MoreFilesSkipsLast(idx, fs) == idx < Len(fs) - 1

\* The loop condition i < files.length, for the index idx about to be used.
MoreFiles(idx, fs) == idx < Len(fs)

\* Uploads started all at once (a Promise.all over the files).
InitialUploadsAll(fs) == fs

\* The uploads on the wire when the run first suspends: the loop awaits each
\* uploadSingleFile before the next iteration, so only the first file's.
InitialUploads(fs) == << fs[1] >>

\* A start of the run that leaves the message of an earlier error up.
handleUploadKeepsError ==
  /\ UploadEnabled
  /\ nextTimer <= MaxTimers
  /\ IF Len(files) = 0
     THEN /\ error' = Some(NoFilesSelected)
          /\ UNCHANGED << isUploading, progress, uploadedFiles, processingStep,
                          uploadRunVars, outstanding, logVars >>
     ELSE /\ error' = error
          /\ isUploading' = TRUE
          /\ progress' = 0
          /\ uploadedFiles' = <<>>
          /\ processingStep' = IF variant = "kyc" THEN "upload" ELSE processingStep
          /\ upPc' = "upload"
          /\ runFiles' = files
          /\ i' = 0
          /\ uploadedFileNames' = <<>>
          /\ processInterval' = 0
          /\ outstanding' =
               [outstanding EXCEPT !.upload = @ + Len(InitialUploads(files))]
          /\ uploadLog' = InitialUploads(files)
          /\ processLog' = <<>>
  /\ UNCHANGED << variant, files, isProcessing, extractedData, kycResult,
                  isDragOver, showJson, isProcessingKyc, kycRunVars, timers,
                  nextTimer, kycLog >>

\* handleUpload up to its first await: the Upload & Process button.
handleUpload ==
  /\ UploadEnabled
  /\ nextTimer <= MaxTimers
  /\ IF Len(files) = 0
     THEN /\ error' = Some(NoFilesSelected)
          /\ UNCHANGED << isUploading, progress, uploadedFiles, processingStep,
                          uploadRunVars, outstanding, logVars >>
     ELSE /\ error' = Null
          /\ isUploading' = TRUE
          /\ progress' = 0
          /\ uploadedFiles' = <<>>
          /\ processingStep' = IF variant = "kyc" THEN "upload" ELSE processingStep
          /\ upPc' = "upload"
          /\ runFiles' = files
          /\ i' = 0
          /\ uploadedFileNames' = <<>>
          /\ processInterval' = 0
          /\ outstanding' =
               [outstanding EXCEPT !.upload = @ + Len(InitialUploads(files))]
          /\ uploadLog' = InitialUploads(files)
          /\ processLog' = <<>>
  /\ UNCHANGED << variant, files, isProcessing, extractedData, kycResult,
                  isDragOver, showJson, isProcessingKyc, kycRunVars, timers,
                  nextTimer, kycLog >>

\* The message of the error uploadSingleFile throws.
UploadError(file, outcome, statusText) ==
  CASE outcome = "not_ok" ->
         <<"Failed to upload ">> \o file.name \o <<": ", statusText>>
    [] outcome = "throw" -> FetchFailed
    [] OTHER -> NotJson

\* A catch block that reports the error and leaves the busy flags alone.
UploadCatchKeepsBusy(message) ==
  /\ error' = Some(message)
  /\ isUploading' = isUploading
  /\ isProcessing' = isProcessing

\* The catch block of handleUpload.
UploadCatch(message) ==
  /\ error' = Some(message)
  /\ isUploading' = FALSE
  /\ isProcessing' = FALSE

\* The run is over: its closure and locals are gone, and the record of the
\* requests it posted is closed.
EndUploadRun ==
  /\ upPc' = "idle"
  /\ runFiles' = <<>>
  /\ i' = 0
  /\ uploadedFileNames' = <<>>
  /\ processInterval' = 0
  /\ uploadLog' = <<>>
  /\ processLog' = <<>>

\* The /upload call for runFiles[i] is settled; the run continues to its next
\* await: the next upload, the /process_docs call, or the catch block.
UploadSettled(outcome, statusText) ==
  /\ upPc = "upload"
  /\ IF outcome = "ok"
     THEN LET names == Append(uploadedFileNames, StripWhitespace(runFiles[i + 1].name))
          IN  /\ uploadedFileNames' = names
              /\ i' = i + 1
              /\ progress' = singleFileProgress(i + 1, Len(runFiles))
              /\ IF MoreFiles(i + 1, runFiles)
                 THEN /\ outstanding' = outstanding
                      /\ uploadLog' = Append(uploadLog, runFiles[i + 2])
                      /\ UNCHANGED << isUploading, isProcessing, uploadedFiles,
                                      processingStep, upPc, processInterval,
                                      timers, nextTimer, processLog >>
                 ELSE /\ isUploading' = FALSE
                      /\ isProcessing' = TRUE
                      /\ uploadedFiles' = names
                      /\ processingStep' =
                           IF variant = "kyc" THEN "extract" ELSE processingStep
                      /\ timers' = StartTimer(UploadStep)
                      /\ processInterval' = nextTimer
                      /\ nextTimer' = nextTimer + 1
                      /\ outstanding' =
                           [Receive("upload") EXCEPT !.process_docs = @ + 1]
                      /\ processLog' = Append(processLog, names)
                      /\ upPc' = "process"
                      /\ UNCHANGED uploadLog
              /\ UNCHANGED << error, runFiles >>
     ELSE /\ UploadCatch(UploadError(runFiles[i + 1], outcome, statusText))
          /\ EndUploadRun
          /\ outstanding' = Receive("upload")
          /\ UNCHANGED << progress, uploadedFiles, processingStep, timers,
                          nextTimer >>
  /\ UNCHANGED << variant, files, extractedData, kycResult, isDragOver,
                  showJson, isProcessingKyc, kycRunVars, kycLog >>

\* --------------------------------------------- ingestion of /process_docs
cleanedJsonString(jsonString) == trim(RemoveNewlines(jsonString))

\* A repair that closes one brace at most.
closeOneBrace(jsonString) ==
  LET cleaned == cleanedJsonString(jsonString)
  IN  IF CountChar(cleaned, "{") > CountChar(cleaned, "}")
      THEN cleaned \o RepeatBrace(1)
      ELSE cleaned

fixedJsonString(jsonString) ==
  LET cleaned == cleanedJsonString(jsonString)
      openBraces == CountChar(cleaned, "{")
      closeBraces == CountChar(cleaned, "}")
  IN  IF openBraces > closeBraces
      THEN cleaned \o RepeatBrace(openBraces - closeBraces)
      ELSE cleaned

\* The value of parsedData for one response string.
parsedData(jsonString) ==
  LET r == JSONparse(fixedJsonString(jsonString))
  IN  IF r.ok THEN r.val
      ELSE IF variant = "kyc"
        THEN Put(EmptyObject, KeyRawData, Str(jsonString))
        ELSE Put(EmptyObject, KeyRawData, Str(cleanedJsonString(jsonString)))

\* files[index]?.name || `Document ${index + 1}`, index = k - 1, over the
\* files array the run's closure holds.
DocFilename(k) ==
  IF k <= Len(runFiles) /\ Len(runFiles[k].name) > 0
  THEN runFiles[k].name
  ELSE <<"Document ", Digits[k + 1]>>

PDF == <<"P", "D", "F">>

\* { ...v } laid over obj: the own enumerable properties of v, which are the
\* members of an object, the elements of an array under their index, and the
\* characters of a string under their index.
SpreadMembers(v) ==
  LET below == { e \in v : e[1] # <<>> }
      AsKey(step) == IF step[1] = "i" THEN <<"k", step[2]>> ELSE step
      root == { e \in v : e[1] = <<>> /\ e[2][1] = "s" }
  IN  { << <<AsKey(Head(e[1]))>> \o Tail(e[1]), e[2] >> : e \in below }
        \cup UNION { { << << <<"k", Digits[j - 1]>> >>, <<"s", e[2][j]>> >> :
                       j \in 2..Len(e[2]) } : e \in root }

Spread(obj, v) ==
  LET m == SpreadMembers(v)
      keys == { Head(e[1]) : e \in m }
  IN  { e \in obj : e[1] = <<>> \/ Head(e[1]) \notin keys } \cup m

\* The Document built for the k-th response string.
Document(k, jsonString) ==
  LET base == Put(Put(EmptyObject, KeyFilename, Str(DocFilename(k))),
                  KeyType, Str(PDF))
  IN  IF variant = "kyc"
      THEN Put(base, KeyData, parsedData(jsonString))
      ELSE Spread(base, parsedData(jsonString))

parsedDocuments(data) == [k \in 1..Len(data) |-> Document(k, data[k])]

\* Array.isArray(doc.red_flags) && doc.red_flags.length > 0
HasRedFlagArray(doc) ==
  \E e \in Get(doc, KeyRedFlags) : e[1] # <<>> /\ Head(e[1])[1] = "i"

\* A check for a red_flags member of any kind.
hasRedFlagsMember(docs) ==
  variant = "nokyc" /\ \E k \in 1..Len(docs) : Get(docs[k], KeyRedFlags) # {}

\* A check made in every variant, on the payload kept under data as well.
hasRedFlagsInData(docs) ==
  \E k \in 1..Len(docs) :
    HasRedFlagArray(docs[k]) \/ HasRedFlagArray(Get(docs[k], KeyData))

hasRedFlags(docs) ==
  variant = "nokyc" /\ \E k \in 1..Len(docs) : HasRedFlagArray(docs[k])

verificationSummary(docs) ==
  [ identityVerified |-> ~hasRedFlags(docs),
    riskScore |-> IF hasRedFlags(docs) THEN "Medium" ELSE "Low",
    recommendedAction |-> IF hasRedFlags(docs) THEN "Review" ELSE "Approve" ]

formattedData(data) ==
  [ documents |-> parsedDocuments(data),
    verificationSummary |-> verificationSummary(parsedDocuments(data)) ]

ProcessOutcomes == Outcomes \cup { "ok_no_data" }

ProcessError(outcome, statusText) ==
  CASE outcome = "not_ok" -> <<"Processing failed: ", statusText>>
    [] outcome = "throw" -> FetchFailed
    [] outcome = "ok_not_json" -> NotJson
    [] OTHER -> NoMap

\* The /process_docs call is settled; the run ends, with the extracted data
\* or through the catch block.  data is the response's data array and counts
\* only when outcome is "ok"; "ok_no_data" is a JSON body without a data array.
ProcessSettled(outcome, statusText, data) ==
  /\ upPc = "process"
  /\ outstanding' = Receive("process_docs")
  /\ EndUploadRun
  /\ isUploading' = IF outcome = "ok" THEN isUploading ELSE FALSE
  /\ isProcessing' = FALSE
  /\ IF outcome \in { "ok", "ok_no_data" }
     THEN /\ timers' = ClearTimer(timers, processInterval)
          /\ progress' = 100
     ELSE UNCHANGED << timers, progress >>
  /\ IF outcome = "ok"
     THEN /\ extractedData' = Some(formattedData(data))
          /\ UNCHANGED error
     ELSE /\ error' = Some(ProcessError(outcome, statusText))
          /\ UNCHANGED extractedData
  /\ UNCHANGED << variant, files, kycResult, isDragOver, uploadedFiles,
                  showJson, isProcessingKyc, processingStep, kycRunVars,
                  nextTimer, kycLog >>

\* -------------------------------------------------------------- processKYC
NoDocumentData == <<"No document data to process">>

\* A body that lists the documents last first.
combinedDataReversed ==
  LET docs == Val(extractedData).documents
      Entry(doc) ==
        Put(Put(EmptyObject, KeyFilename, Get(doc, KeyFilename)),
            KeyData, Get(doc, KeyData))
  IN  [ documentData |-> [k \in 1..Len(docs) |-> Entry(docs[Len(docs) + 1 - k])],
        verificationSummary |-> Val(extractedData).verificationSummary ]

\* The body posted to /process_kyc.
combinedData ==
  LET docs == Val(extractedData).documents
      Entry(doc) ==
        Put(Put(EmptyObject, KeyFilename, Get(doc, KeyFilename)),
            KeyData, Get(doc, KeyData))
  IN  [ documentData |-> [k \in 1..Len(docs) |-> Entry(docs[k])],
        verificationSummary |-> Val(extractedData).verificationSummary ]

\* The function without its check of extractedData.
processKYCUnchecked ==
  /\ error' = Null
  /\ isProcessingKyc' = TRUE
  /\ processingStep' = "kyc"
  /\ progress' = 0
  /\ timers' = StartTimer(KycStep)
  /\ kycInterval' = nextTimer
  /\ nextTimer' = nextTimer + 1
  /\ outstanding' = Send("process_kyc")
  /\ kycPc' = "fetch"
  /\ kycLog' = IF IsNull(extractedData) THEN kycLog ELSE Append(kycLog, combinedData)
  /\ UNCHANGED << kycResponse, variant, files, isUploading, isProcessing,
                  extractedData, kycResult, isDragOver, uploadedFiles,
                  showJson, uploadRunVars, logVars >>

\* The function processKYC up to its first await, whoever calls it.
processKYCCall ==
  /\ IF IsNull(extractedData)
     THEN /\ error' = Some(NoDocumentData)
          /\ UNCHANGED << isProcessingKyc, processingStep, progress,
                          kycRunVars, timers, nextTimer, outstanding,
                          kycLog >>
     ELSE /\ error' = Null
          /\ isProcessingKyc' = TRUE
          /\ processingStep' = "kyc"
          /\ progress' = 0
          /\ timers' = StartTimer(KycStep)
          /\ kycInterval' = nextTimer
          /\ nextTimer' = nextTimer + 1
          /\ outstanding' = Send("process_kyc")
          /\ kycPc' = "fetch"
          /\ kycLog' = Append(kycLog, combinedData)
          /\ UNCHANGED kycResponse
  /\ UNCHANGED << variant, files, isUploading, isProcessing, extractedData,
                  kycResult, isDragOver, uploadedFiles, showJson,
                  uploadRunVars, logVars >>

\* processKYC up to its first await: the Process KYC button.
processKYC ==
  /\ ProcessKycEnabled
  /\ nextTimer <= MaxTimers
  /\ processKYCCall

\* processKYC called where no extracted data exists: no control of the
\* component does this, the function's own check is all that answers it.
processKYCWithoutData ==
  /\ variant = "kyc"
  /\ IsNull(extractedData)
  /\ kycPc = "idle"
  /\ nextTimer <= MaxTimers
  /\ processKYCCall

\* The fetch of /process_kyc is settled: it was rejected (catch, finally), or
\* a Response arrived (the timer is cleared, progress snaps to 100) and the
\* call goes on to await the response's body.
KycFetchSettled(outcome, statusText) ==
  /\ kycPc = "fetch"
  /\ IF outcome = "throw"
     THEN /\ error' = Some(FetchFailed)
          /\ isProcessingKyc' = FALSE
          /\ kycPc' = "idle"
          /\ kycInterval' = 0
          /\ outstanding' = Receive("process_kyc")
          /\ UNCHANGED << timers, progress, kycResponse >>
     ELSE /\ timers' = ClearTimer(timers, kycInterval)
          /\ progress' = 100
          /\ kycResponse' = [ok |-> outcome = "ok", statusText |-> statusText]
          /\ kycPc' = "json"
          /\ UNCHANGED << error, isProcessingKyc, kycInterval, outstanding >>
  /\ UNCHANGED << variant, files, isUploading, isProcessing, extractedData,
                  kycResult, isDragOver, uploadedFiles, showJson,
                  processingStep, uploadRunVars, nextTimer, logVars, kycLog >>

\* `KYC Processing failed: ${errorData.message || kycResponse.statusText}`
KycError(errorData, statusText) ==
  LET m == Get(errorData, KeyMessage)
      scalar == (CHOOSE e \in m : e[1] = <<>>)[2]
      truthy == /\ \E e \in m : e[1] = <<>>
                /\ scalar[1] \in { "s", "n" }
                /\ Len(scalar) > 1
                /\ scalar # <<"n", "0">>
  IN  IF truthy
      THEN <<"KYC Processing failed: ">> \o Tail(scalar)
      ELSE <<"KYC Processing failed: ", statusText>>

\* kycResponse.json() is settled: body is Some(value), or Null when the body
\* is not JSON and json() rejects.  The call ends (finally).
KycJsonSettled(body) ==
  /\ kycPc = "json"
  /\ IF IsNull(body)
     THEN /\ error' = Some(NotJson)
          /\ UNCHANGED kycResult
     ELSE IF kycResponse.ok
       THEN /\ kycResult' = body
            /\ UNCHANGED error
       ELSE /\ error' = Some(KycError(Val(body), kycResponse.statusText))
            /\ UNCHANGED kycResult
  /\ isProcessingKyc' = FALSE
  /\ kycPc' = "idle"
  /\ kycInterval' = 0
  /\ kycResponse' = NoResponse
  /\ outstanding' = Receive("process_kyc")
  /\ UNCHANGED << variant, files, isUploading, isProcessing, progress,
                  extractedData, isDragOver, uploadedFiles, showJson,
                  processingStep, uploadRunVars, timers, nextTimer,
                  logVars, kycLog >>

\* The bodies json() can deliver for the Response the call holds.
JsonBodies ==
  { Null } \cup { Some(b) : b \in IF kycResponse.ok THEN KycBodies ELSE KycErrorBodies }

\* ------------------------------------------------------------ specification
Next ==
  \/ \E b \in Batches : handleFileChange(b)
  \/ handleDragOver
  \/ handleDragLeave
  \/ \E b \in Batches \cup { <<>> } : handleDrop(b)
  \/ \E k \in 0..(MaxFiles - 1) : handleRemoveFile(k)
  \/ handleReset
  \/ \E k \in 0..(MaxDocs - 1) : toggleJson(k)
  \/ toggleKycData
  \/ handleUpload
  \/ \E o \in Outcomes, st \in StatusTexts : UploadSettled(o, st)
  \/ \E o \in ProcessOutcomes, st \in StatusTexts, d \in SeqsUpTo(RespStrings, MaxDocs) :
       ProcessSettled(o, st, d)
  \/ processKYC
  \/ \E o \in { "ok", "not_ok", "throw" }, st \in StatusTexts : KycFetchSettled(o, st)
  \/ \E b \in JsonBodies : KycJsonSettled(b)
  \/ \E t \in timers : TimerTick(t)

Spec == Init /\ [][Next]_vars

\* Selecting, uploading, processing and resetting, where every request is
\* answered, with a response or with an error, and every live timer keeps
\* firing.
Answered ==
  \/ \E o \in Outcomes, st \in StatusTexts : UploadSettled(o, st)
  \/ \E o \in ProcessOutcomes, st \in StatusTexts, d \in SeqsUpTo(RespStrings, MaxDocs) :
       ProcessSettled(o, st, d)
  \/ \E o \in { "ok", "not_ok", "throw" }, st \in StatusTexts : KycFetchSettled(o, st)
  \/ \E b \in JsonBodies : KycJsonSettled(b)

TimerFires(id) == \E t \in timers : t.id = id /\ TimerTick(t)

NextLive ==
  \/ \E b \in Batches : handleFileChange(b)
  \/ handleReset
  \/ handleUpload
  \/ processKYC
  \/ Answered
  \/ \E t \in timers : TimerTick(t)

SpecLive ==
  /\ Init
  /\ [][NextLive]_vars
  /\ WF_vars(Answered)
  /\ \A id \in 1..MaxTimers : WF_vars(TimerFires(id))

\* A selection of n PDF files of different names.
ManyFiles(n) ==
  [k \in 1..n |->
     [name |-> <<"f", Digits[(k \div 10) + 1], Digits[(k % 10) + 1],
                 ".", "p", "d", "f">>,
      size |-> 1]]

\* The component at rest: every state variable at its initial value, but
\* the variant, the files selected and the timers left over as given.
AtRestWith(v, selected, leftover) ==
  /\ variant = v
  /\ files = selected
  /\ isUploading = FALSE
  /\ isProcessing = FALSE
  /\ progress = 0
  /\ extractedData = Null
  /\ kycResult = Null
  /\ error = Null
  /\ isDragOver = FALSE
  /\ uploadedFiles = <<>>
  /\ showJson = {}
  /\ isProcessingKyc = FALSE
  /\ processingStep = "upload"
  /\ upPc = "idle"
  /\ runFiles = <<>>
  /\ i = 0
  /\ uploadedFileNames = <<>>
  /\ processInterval = 0
  /\ kycPc = "idle"
  /\ kycInterval = 0
  /\ kycResponse = NoResponse
  /\ timers = leftover
  /\ nextTimer = 1
  /\ outstanding = NoRequests
  /\ uploadLog = <<>>
  /\ processLog = <<>>
  /\ kycLog = <<>>

\* The KYC variant after one session that left a timer behind: a file was
\* uploaded and extracted, Process KYC was clicked, the fetch of /process_kyc
\* was rejected (its timer, of step 10, is never cleared), and Upload New
\* Documents was clicked.  Every state variable is back at its initial value;
\* the timer is still live.  The list is empty, or files have been selected
\* since.
InitLeak ==
  \E n \in { 0, MaxLeakFiles } :
    AtRestWith("kyc", ManyFiles(n), { [id |-> 0, step |-> KycStep] })

SpecLeak == InitLeak /\ [][Next]_vars

\* The component, and processKYC called without the button.
NextCalls ==
  \/ Next
  \/ processKYCWithoutData

SpecCalls == Init /\ [][NextCalls]_vars

\* The component with between one and MaxSelected files selected.
InitSelected ==
  \E v \in Variants, n \in 1..MaxSelected : AtRestWith(v, ManyFiles(n), {})

\* handleUpload alone, over a few files and over the further response
\* strings.
InitIngest ==
  \E v \in Variants, n \in 1..MaxFiles : AtRestWith(v, ManyFiles(n), {})

NextIngest ==
  \/ handleUpload
  \/ \E o \in Outcomes, st \in StatusTexts : UploadSettled(o, st)
  \/ \E o \in ProcessOutcomes, st \in StatusTexts,
        d \in SeqsUpTo(IngestStrings, MaxDocs) : ProcessSettled(o, st, d)

SpecIngest == InitIngest /\ [][NextIngest]_vars

\* The upload loop of handleUpload alone.
NextUploads ==
  \/ handleUpload
  \/ \E o \in Outcomes, st \in StatusTexts : UploadSettled(o, st)

SpecUploads == InitSelected /\ [][NextUploads]_vars

\* The KYC variant at the second await of handleUpload: the uploads of a run
\* over n files have all succeeded and /process_docs is outstanding.  The
\* run's timer carries the id 0, so that the timers started from here on are
\* counted from 1.
InitExtracting ==
  \E n \in 1..MaxFiles :
    LET names == [k \in 1..n |-> StripWhitespace(ManyFiles(n)[k].name)]
    IN  /\ variant = "kyc"
        /\ files = ManyFiles(n)
        /\ isUploading = FALSE
        /\ isProcessing = TRUE
        /\ progress = singleFileProgress(n, n)
        /\ extractedData = Null
        /\ kycResult = Null
        /\ error = Null
        /\ isDragOver = FALSE
        /\ uploadedFiles = names
        /\ showJson = {}
        /\ isProcessingKyc = FALSE
        /\ processingStep = "extract"
        /\ upPc = "process"
        /\ runFiles = ManyFiles(n)
        /\ i = n
        /\ uploadedFileNames = names
        /\ processInterval = 0
        /\ kycPc = "idle"
        /\ kycInterval = 0
        /\ kycResponse = NoResponse
        /\ timers = { [id |-> 0, step |-> UploadStep] }
        /\ nextTimer = 1
        /\ outstanding = [NoRequests EXCEPT !.process_docs = 1]
        /\ uploadLog = ManyFiles(n)
        /\ processLog = <<names>>
        /\ kycLog = <<>>

\* The extraction and the KYC step that follows it.
NextKyc ==
  \/ \E o \in ProcessOutcomes, st \in StatusTexts,
        d \in SeqsUpTo(IngestStrings, MaxDocs) : ProcessSettled(o, st, d)
  \/ processKYC
  \/ \E o \in { "ok", "not_ok", "throw" }, st \in StatusTexts :
       KycFetchSettled(o, st)
  \/ \E b \in JsonBodies : KycJsonSettled(b)
  \/ \E t \in timers : TimerTick(t)
  \/ handleReset

SpecKyc == InitExtracting /\ [][NextKyc]_vars

\* ================================================================== claims
\* The phase read off the state.
Phase ==
  IF isUploading THEN "uploading"
  ELSE IF isProcessing THEN "extracting"
  ELSE IF isProcessingKyc THEN "kyc-processing"
  ELSE IF ~IsNull(kycResult) THEN "kyc-done"
  ELSE IF ~IsNull(extractedData) THEN "kyc-ready"
  ELSE "idle"

\* Steps that end a call in failure: the run or call is over and has left no
\* result behind.
UploadFails == upPc = "upload" /\ upPc' = "idle"
ProcessFails == upPc = "process" /\ upPc' = "idle" /\ IsNull(extractedData')
KycFails == kycPc # "idle" /\ kycPc' = "idle" /\ IsNull(kycResult')

\* C1: in every run of handleUpload the /process_docs request is posted at
\* most once, only when every candidate file has been posted to /upload and
\* every one of these uploads has succeeded, and its list_of_doc holds the
\* server-facing name of each candidate file in candidate-list order.
C1_ProcessOnceAfterAllUploads ==
  /\ Len(processLog) <= 1
  /\ upPc # "idle" => runFiles = files
  /\ outstanding.process_docs <= Len(processLog)
  /\ Len(processLog) = 1 =>
       /\ uploadLog = files
       /\ i = Len(files)
       /\ outstanding.upload = 0
       /\ Len(processLog[1]) = Len(files)
       /\ \A k \in 1..Len(files) : processLog[1][k] = StripWhitespace(files[k].name)

\* A run over two files of different names has posted its /process_docs
\* request.
C1_Witness ==
  /\ upPc = "process"
  /\ Len(processLog) = 1
  /\ Len(files) = 2
  /\ files[1].name # files[2].name

\* C2: uploads are serialized: at most one /upload request is on the wire,
\* the requests are posted in candidate-list order, and the request for the
\* next file is posted only when all earlier ones have succeeded.
C2_UploadsSerialized ==
  /\ outstanding.upload <= 1
  /\ (outstanding.upload = 1) <=> (upPc = "upload")
  /\ uploadLog = SubSeq(runFiles, 1, Len(uploadLog))
  /\ upPc = "upload" => Len(uploadLog) = i + 1 /\ Len(uploadedFileNames) = i
  /\ upPc = "process" => Len(uploadLog) = i /\ Len(uploadedFileNames) = i

\* The second of two differently named files is on the wire, the first one
\* having succeeded.
C2_Witness ==
  /\ upPc = "upload"
  /\ i = 1
  /\ Len(uploadLog) = 2
  /\ uploadLog[1].name # uploadLog[2].name
  /\ outstanding.upload = 1

\* C3: the candidate file list never holds two entries with the same
\* filename; of a name repeated inside one batch only the first occurrence
\* is listed.
C3_NoDuplicateNames ==
  \A j \in 1..Len(files), k \in 1..Len(files) :
    j # k => files[j].name # files[k].name

\* C4: in every reachable state exactly one of the four panels is rendered.
C4_ExactlyOnePanel ==
  Cardinality({ p \in { "idle", "busy", "extracted", "kyc" } :
                  \/ p = "idle" /\ IdlePanel
                  \/ p = "busy" /\ BusyPanel
                  \/ p = "extracted" /\ ExtractedPanel
                  \/ p = "kyc" /\ KycPanel }) = 1

\* The KYC call is running over extracted data: the busy panel alone.
C4_Witness == isProcessingKyc /\ ~IsNull(extractedData) /\ BusyPanel

\* C5 as stated: every phase change is one of the listed six, or a reset to
\* idle.
ListedEdges ==
  { <<"idle", "uploading">>, <<"uploading", "extracting">>,
    <<"extracting", "idle">>, <<"extracting", "kyc-ready">>,
    <<"kyc-ready", "kyc-processing">>, <<"kyc-processing", "kyc-done">> }

C5_ListedPhaseChangesOnly ==
  [][ Phase' # Phase =>
        \/ <<Phase, Phase'>> \in ListedEdges
        \/ handleReset /\ Phase' = "idle" ]_vars

\* C5 as amended: the listed changes, a reset to idle, and the three changes
\* a failed call makes: uploading to idle (an upload failed), kyc-processing
\* to kyc-ready (the KYC call failed), kyc-processing to idle (the KYC call
\* failed after a reset had discarded the extracted data).
FailureEdges ==
  { <<"uploading", "idle">>, <<"kyc-processing", "kyc-ready">>,
    <<"kyc-processing", "idle">> }

C5_PhaseChanges ==
  [][ Phase' # Phase =>
        \/ <<Phase, Phase'>> \in ListedEdges
        \/ handleReset /\ Phase' = "idle"
        \/ <<Phase, Phase'>> \in FailureEdges /\ (UploadFails \/ KycFails)
             /\ ~IsNull(error') ]_vars

\* A failed KYC call has put the component back to kyc-ready.
C5_Witness == Phase = "kyc-ready" /\ ~IsNull(error) /\ variant = "kyc"

\* C6: the state right after handleReset renders the idle/selection panel
\* and none of the other three.
C6_ResetRendersIdle ==
  [][ handleReset =>
        (IdlePanel /\ ~BusyPanel /\ ~ExtractedPanel /\ ~KycPanel)' ]_vars

\* C7: handleReset leaves files empty, extractedData null, kycResult null,
\* progress 0, error null, uploadedFiles empty, every showJson toggle off
\* and processingStep 'upload', and changes nothing else.
C7_ResetEffect ==
  [][ handleReset =>
        /\ files' = <<>>
        /\ IsNull(extractedData')
        /\ IsNull(kycResult')
        /\ progress' = 0
        /\ IsNull(error')
        /\ uploadedFiles' = <<>>
        /\ showJson' = {}
        /\ processingStep' = "upload"
        /\ UNCHANGED << variant, isUploading, isProcessing, isProcessingKyc,
                        isDragOver, uploadRunVars, kycRunVars, timers,
                        nextTimer, outstanding, logVars >> ]_vars

\* A reset was applied while the KYC call was running: everything is
\* cleared and the busy flag has kept its value.
C7_Witness ==
  /\ isProcessingKyc
  /\ files = <<>>
  /\ IsNull(extractedData)
  /\ progress = 0
  /\ showJson = {}
  /\ processingStep = "upload"

\* C8: right after a failed /upload, /process_docs or /process_kyc call,
\* error is set, the call's busy flags are off, the component is in the phase
\* the call was started from with its input unchanged, and the control that
\* started the call is enabled again.
C8_FailureFallsBack ==
  [][ /\ (UploadFails \/ ProcessFails) =>
           /\ ~IsNull(error')
           /\ ~isUploading' /\ ~isProcessing'
           /\ Phase' = "idle"
           /\ files' = files
           /\ UploadEnabled'
      /\ KycFails =>
           /\ ~IsNull(error')
           /\ ~isProcessingKyc'
           /\ Phase' = "kyc-ready"
           /\ extractedData' = extractedData
           /\ ProcessKycEnabled' ]_vars

\* C9: when the upload of the k-th file fails, the run has posted /upload
\* for files 1..k only and no /process_docs, error is set, isUploading is
\* off, the failure step posts no request of its own, and uploadedFiles is
\* empty.
C9_UploadFailureAborts ==
  [][ UploadFails =>
        /\ uploadLog = SubSeq(runFiles, 1, i + 1)
        /\ processLog = <<>>
        /\ ~IsNull(error')
        /\ ~isUploading'
        /\ outstanding' = NoRequests
        /\ uploadedFiles' = <<>>
        /\ files' = files ]_vars

\* The upload of the second of two differently named files has failed.
C9_Witness ==
  /\ upPc = "idle"
  /\ Len(files) = 2
  /\ files[1].name # files[2].name
  /\ \E st \in StatusTexts : error = Some(UploadError(files[2], "not_ok", st))
  /\ ~isUploading
  /\ uploadedFiles = <<>>

\* C10: when a /process_docs or /process_kyc call ends, by a success
\* response, a non-success status or a thrown error, the timer started for
\* it is no longer live.
C10_TimerClearedAtEnd ==
  [][ /\ (upPc = "process" /\ upPc' = "idle") =>
           \A t \in timers' : t.id # processInterval
      /\ (kycPc # "idle" /\ kycPc' = "idle") =>
           \A t \in timers' : t.id # kycInterval ]_vars

\* C11: while the /process_docs request of a run is outstanding, progress
\* stays between 50 and 95 and changes only by timer steps of +5; when the
\* success response arrives progress becomes 100 and isProcessing false.
C11_ProcessingProgress ==
  [][ upPc = "process" =>
        /\ 50 <= progress /\ progress <= 95
        /\ upPc' = "process" =>
             progress' = progress \/ progress' = progress + UploadStep
        /\ (upPc' = "idle" /\ ~IsNull(extractedData')) =>
             progress' = 100 /\ ~isProcessing' ]_vars

\* C12: in every reachable state with isUploading true, progress is at most
\* 50, also in a run that is a retry after a failed run.
C12_UploadingProgressAtMost50 == isUploading => progress <= 50

\* C13: in a run over n files the value written to progress when the k-th
\* upload completes is floor(k*50/n).
C13_ProgressIsFloor ==
  [][ (upPc = "upload" /\ i' = i + 1) =>
        progress' = ((i + 1) * 50) \div Len(runFiles) ]_vars

\* C14: a /process_kyc request is sent only from a state where extractedData
\* is non-null (which only a successful /process_docs response makes it);
\* processKYC called with extractedData null sends no request and only sets
\* error.
C14_KycNeedsExtractedData ==
  [][ /\ outstanding'.process_kyc > outstanding.process_kyc =>
           ~IsNull(extractedData) /\ extractedData' = extractedData
      /\ (~IsNull(extractedData') /\ IsNull(extractedData)) =>
           outstanding'.process_docs < outstanding.process_docs
      /\ processKYCWithoutData =>
           /\ outstanding' = outstanding
           /\ error' = Some(NoDocumentData)
           /\ UNCHANGED << variant, files, isUploading, isProcessing, progress,
                           extractedData, kycResult, isDragOver, uploadedFiles,
                           showJson, isProcessingKyc, processingStep,
                           uploadRunVars, kycRunVars, timers, nextTimer,
                           logVars >> ]_vars

\* processKYC was called without extracted data: the error is set and
\* nothing was sent.
C14_Witness ==
  /\ error = Some(NoDocumentData)
  /\ IsNull(extractedData)
  /\ ~isProcessingKyc
  /\ outstanding.process_kyc = 0

\* The payload an extracted document carries: its data member, or, where
\* the payload was spread into the document, every member but filename and
\* type.
PayloadOf(doc) ==
  IF variant = "kyc" THEN Get(doc, KeyData)
  ELSE { e \in doc : Head(e[1]) \notin { KeyFilename, KeyType } }

\* The filename the document at position k is to carry.
NameAt(k) ==
  IF k <= Len(files) THEN Str(files[k].name)
  ELSE Str(<<"Document ", Digits[k + 1]>>)

\* C15: after a successful /process_docs response carrying m strings,
\* extractedData.documents has m entries in response order, the entry at
\* each position with type 'PDF' and with the name of the candidate file at
\* that position as filename ('Document k' where there is no such file),
\* whatever the parsed payload contains.
C15_DocumentsKeyedByPosition ==
  [][ \A st \in StatusTexts, d \in SeqsUpTo(IngestStrings, MaxDocs) :
        ProcessSettled("ok", st, d) =>
          LET docs == Val(extractedData').documents
          IN  /\ Len(docs) = Len(d)
              /\ \A k \in 1..Len(d) :
                   /\ Get(docs[k], KeyType) = Str(PDF)
                   /\ Get(docs[k], KeyFilename) = NameAt(k)
                   /\ IF variant = "kyc"
                      THEN Get(docs[k], KeyData) = parsedData(d[k])
                      ELSE SpreadMembers(parsedData(d[k])) \subseteq docs[k] ]_vars

\* C16: a response string s that fails to parse after brace repair gives
\* its document the payload {raw_data: s}, s the string as received; the
\* run still ends with one document per string, extractedData set and error
\* null.
C16_RawDataFallback ==
  [][ \A st \in StatusTexts, d \in SeqsUpTo(IngestStrings, MaxDocs) :
        ProcessSettled("ok", st, d) =>
          /\ ~IsNull(extractedData')
          /\ IsNull(error')
          /\ Len(Val(extractedData').documents) = Len(d)
          /\ \A k \in 1..Len(d) :
               ~JSONparse(fixedJsonString(d[k])).ok =>
                 PayloadOf(Val(extractedData').documents[k])
                   = Put(EmptyObject, KeyRawData, Str(d[k])) ]_vars

\* The text the claim hands to the parser: s without newlines and outer
\* whitespace, then max(0, opening minus closing braces) closing braces.
RepairedText(str) ==
  LET cleaned == trim(RemoveNewlines(str))
      deficit == CountChar(cleaned, "{") - CountChar(cleaned, "}")
  IN  cleaned \o [j \in 1..(IF deficit > 0 THEN deficit ELSE 0) |-> "}"]

\* The object a response string cut short was meant to be.
Intended(c) == JSONparse(trim(RemoveNewlines(c.full))).val

\* As many opening as closing braces in the complete text, those inside
\* string values counted.
BracesBalanced(c) == CountChar(c.full, "{") = CountChar(c.full, "}")

RECURSIVE WithoutWhitespace(_)
WithoutWhitespace(s) ==
  IF s = <<>> THEN <<>>
  ELSE IF Head(s) \in Whitespace THEN WithoutWhitespace(Tail(s))
  ELSE <<Head(s)>> \o WithoutWhitespace(Tail(s))

\* C18: when the upload loop ends, uploadedFiles and the list_of_doc posted
\* to /process_docs have one entry per candidate file, the entry at each
\* position being that file's name without its whitespace characters and
\* otherwise unchanged.
C18_NamesWithoutWhitespace ==
  [][ (upPc = "upload" /\ upPc' = "process") =>
        /\ Len(uploadedFiles') = Len(runFiles)
        /\ processLog' = Append(processLog, uploadedFiles')
        /\ \A k \in 1..Len(runFiles) :
             uploadedFiles'[k] = WithoutWhitespace(runFiles[k].name) ]_vars

\* /process_docs is outstanding for a run over a file whose name holds a
\* space, posted without it.
C18_Witness ==
  /\ upPc = "process"
  /\ processLog = <<uploadedFiles>>
  /\ \E k \in 1..Len(runFiles) :
       /\ runFiles[k].name = NameASpace
       /\ uploadedFiles[k] = <<"a", ".", "P", "D", "F">>

\* C19: an /upload response with success status makes the run go on to the
\* next file (or to /process_docs) whatever its body, a body that is not
\* JSON included; only a non-success status or a failed request ends the run
\* with an error.
C19_UploadSuccessByStatusOnly ==
  [][ \A o \in Outcomes, st \in StatusTexts :
        UploadSettled(o, st) =>
          IF o \in { "ok", "ok_not_json" }
          THEN /\ upPc' \in { "upload", "process" }
               /\ i' = i + 1
               /\ error' = error
          ELSE /\ upPc' = "idle"
               /\ ~IsNull(error') ]_vars

\* The message member of a JSON error body when it is a non-empty string,
\* Null otherwise.
MessageOf(body) ==
  LET m == { e \in Get(body, KeyMessage) :
               e[1] = <<>> /\ e[2][1] = "s" /\ Len(e[2]) > 1 }
  IN  IF m = {} THEN Null ELSE Some(Tail((CHOOSE e \in m : TRUE)[2]))

\* C20: when /process_kyc answers with a non-success status, error becomes
\* 'KYC Processing failed: ' followed by the message of the JSON error body
\* when it has a non-empty one, and by the status text otherwise, a body
\* that is not JSON included; kycResult is left as it was.
C20_KycFailureMessage ==
  [][ \A body \in JsonBodies :
        (KycJsonSettled(body) /\ ~kycResponse.ok) =>
          /\ kycResult' = kycResult
          /\ error' =
               Some(<<"KYC Processing failed: ">> \o
                    (IF ~IsNull(body) /\ ~IsNull(MessageOf(Val(body)))
                     THEN Val(MessageOf(Val(body)))
                     ELSE <<kycResponse.statusText>>)) ]_vars

\* A name ending in '.pdf', whatever the case of its letters.
EndsInPdf(name) ==
  /\ Len(name) >= 4
  /\ name[Len(name) - 3] = "."
  /\ name[Len(name) - 2] \in { "p", "P" }
  /\ name[Len(name) - 1] \in { "d", "D" }
  /\ name[Len(name)] \in { "f", "F" }

\* A batch reaches addFiles through the picker or through a drop.
AddsFiles(b) == handleFileChange(b) \/ handleDrop(b)

\* C21: every entry of the candidate file list has a name ending in '.pdf'
\* compared case-insensitively, and addFiles leaves the entries already in
\* the list where they are.
C21_OnlyPdfNamesKept ==
  /\ [](\A k \in 1..Len(files) : EndsInPdf(files[k].name))
  /\ [][ files' # files =>
           \A b \in Batches :
             AddsFiles(b) => /\ Len(files') >= Len(files)
                             /\ SubSeq(files', 1, Len(files)) = files ]_vars

\* A second file, its name ending in '.PDF', was added behind the first
\* while another file of the batch was filtered out.
C21_Witness ==
  /\ Len(files) = 2
  /\ files[1].name = NameASpace
  /\ files[2].name = NameA
  /\ error = Some(FilterWarning)
  /\ upPc = "idle"

\* The entries of a batch that are new to the list, with a PDF name or not.
NewInBatch(b, pdf) ==
  { k \in 1..Len(b) :
      /\ \A j \in 1..Len(files) : files[j].name # b[k].name
      /\ EndsInPdf(b[k].name) = pdf }

\* No upload run and no KYC call is under way.
NoCallRunning == ~isUploading /\ ~isProcessing /\ ~isProcessingKyc

\* C22: a batch with new valid PDF names and a new non-PDF name has its new
\* valid files appended and sets error to the filter warning; while the
\* warning is shown the upload action is enabled exactly when the list is
\* non-empty and no call is running, and starting it clears the warning.
C22_WarningDoesNotBlock ==
  /\ [][ (files' # files \/ error' # error) =>
           \A b \in Batches :
             (/\ NewInBatch(b, TRUE) # {}
              /\ NewInBatch(b, FALSE) # {}
              /\ AddsFiles(b)) =>
               /\ Len(files') = Len(files) + Cardinality(NewInBatch(b, TRUE))
               /\ \A k \in NewInBatch(b, TRUE) :
                    \E j \in (Len(files) + 1)..Len(files') : files'[j] = b[k]
               /\ error' = Some(FilterWarning)
               /\ UploadEnabled' ]_vars
  /\ [](error = Some(FilterWarning) =>
          (UploadEnabled <=> (Len(files) > 0 /\ NoCallRunning)))
  /\ [][ (error = Some(FilterWarning) /\ upPc = "idle" /\ upPc' = "upload") =>
           IsNull(error') ]_vars

\* The filter warning is shown over a list of one accepted file, and the
\* upload action is enabled.
C22_Witness ==
  /\ error = Some(FilterWarning)
  /\ Len(files) = 1
  /\ files[1].name = NameA
  /\ NoCallRunning
  /\ UploadEnabled

\* The two verification summaries.
SummaryReview ==
  [identityVerified |-> FALSE, riskScore |-> "Medium", recommendedAction |-> "Review"]

SummaryApprove ==
  [identityVerified |-> TRUE, riskScore |-> "Low", recommendedAction |-> "Approve"]

\* The value carries a red_flags member that is an array with an element.
CarriesRedFlags(value) ==
  \E e \in value :
    /\ Len(e[1]) >= 2
    /\ e[1][1] = KeyRedFlags
    /\ e[1][2][1] = "i"

\* C23: in the red-flag variant the verification summary of an ingestion is
\* (false, 'Medium', 'Review') exactly when some extracted document carries
\* a red_flags value that is a non-empty array, and (true, 'Low',
\* 'Approve') otherwise.
C23_SummaryFollowsRedFlags ==
  (variant = "nokyc" /\ ~IsNull(extractedData)) =>
    LET data == Val(extractedData)
        flagged == \E k \in 1..Len(data.documents) :
                     CarriesRedFlags(data.documents[k])
    IN  data.verificationSummary = IF flagged THEN SummaryReview ELSE SummaryApprove

\* Two documents, the first with an empty red_flags array and the second
\* with one red flag, and the summary asking for a review.
C23_Witness ==
  /\ variant = "nokyc"
  /\ ~IsNull(extractedData)
  /\ Len(Val(extractedData).documents) = 2
  /\ Get(Val(extractedData).documents[1], KeyRedFlags) = { << <<>>, <<"[]">> >> }
  /\ CarriesRedFlags(Val(extractedData).documents[2])
  /\ Val(extractedData).verificationSummary = SummaryReview

\* C24: in the default-summary variant every successful ingestion sets the
\* verification summary to (true, 'Low', 'Approve'), whatever the parsed
\* payloads are.
C24_DefaultSummary ==
  (variant = "kyc" /\ ~IsNull(extractedData)) =>
    Val(extractedData).verificationSummary = SummaryApprove

\* A document whose payload has a red flag and a document that took the
\* raw_data fallback, under the default summary.
C24_Witness ==
  /\ variant = "kyc"
  /\ ~IsNull(extractedData)
  /\ Len(Val(extractedData).documents) = 2
  /\ CarriesRedFlags(Get(Val(extractedData).documents[1], KeyData))
  /\ Get(Get(Val(extractedData).documents[2], KeyData), KeyRawData) # {}
  /\ Val(extractedData).verificationSummary = SummaryApprove

\* C25: whenever error is non-null and no request is outstanding, the reset
\* control is enabled, and resetting gives every field its initial value.
C25_ErrorLeavesResetEnabled ==
  /\ []((~IsNull(error) /\ outstanding = NoRequests) => ResetEnabled)
  /\ [][ (~IsNull(error) /\ outstanding = NoRequests /\ handleReset) =>
           /\ files' = <<>> /\ uploadedFiles' = <<>> /\ showJson' = {}
           /\ ~isUploading' /\ ~isProcessing' /\ ~isProcessingKyc'
           /\ IsNull(extractedData') /\ IsNull(kycResult') /\ IsNull(error')
           /\ progress' = 0 /\ ~isDragOver' /\ processingStep' = "upload" ]_vars

\* C26: a busy flag goes down only on a step that takes a request of its
\* own endpoint off the wire, so no user action clears it; and while a
\* request is outstanding the busy panel is the one shown.
C26_BusyUntilAnswered ==
  /\ [][ /\ (isUploading /\ ~isUploading') =>
              outstanding'.upload < outstanding.upload
         /\ (isProcessing /\ ~isProcessing') =>
              outstanding'.process_docs < outstanding.process_docs
         /\ (isProcessingKyc /\ ~isProcessingKyc') =>
              outstanding'.process_kyc < outstanding.process_kyc ]_vars
  /\ [](outstanding # NoRequests => BusyPanel)

\* The list was reset while /process_kyc is outstanding, and the call is
\* still marked busy.
C26_Witness ==
  /\ kycPc = "fetch"
  /\ outstanding.process_kyc = 1
  /\ IsNull(extractedData)
  /\ isProcessingKyc
  /\ BusyPanel

\* C27: a step that takes extractedData away while /process_kyc is
\* outstanding leaves the request and the call as they are, and a success
\* response is stored in kycResult whatever the state it arrives in.
C27_ResetDoesNotCancelKyc ==
  [][ /\ (outstanding.process_kyc > 0 /\ ~IsNull(extractedData)
            /\ IsNull(extractedData')) =>
           UNCHANGED << kycPc, kycInterval, kycResponse, outstanding >>
      /\ \A body \in JsonBodies :
           (kycPc = "json" /\ kycResponse.ok /\ ~IsNull(body)
              /\ KycJsonSettled(body)) => kycResult' = body ]_vars

\* The response of a call that was reset has been stored: a KYC result
\* with no extracted data and no candidate file.
C27_Witness ==
  /\ ~IsNull(kycResult)
  /\ IsNull(extractedData)
  /\ files = <<>>
  /\ kycPc = "idle"
  /\ outstanding = NoRequests

\* C28: at most one request is outstanding over the three endpoints, and a
\* handleUpload run or a processKYC call starts only when no run and no
\* call is under way.
C28_OneRequestAtATime ==
  /\ [](outstanding.upload + outstanding.process_docs
          + outstanding.process_kyc <= 1)
  /\ [][ (\/ outstanding'.upload > outstanding.upload
          \/ outstanding'.process_kyc > outstanding.process_kyc) =>
           /\ outstanding = NoRequests
           /\ upPc = "idle"
           /\ kycPc = "idle" ]_vars

\* After a reset, /process_kyc is the one request outstanding and neither
\* the upload action nor the KYC action can be started.
C28_Witness ==
  /\ outstanding = [NoRequests EXCEPT !.process_kyc = 1]
  /\ files = <<>>
  /\ IsNull(extractedData)
  /\ ~UploadEnabled
  /\ ~ProcessKycEnabled

\* C29: in the component with the KYC step, processingStep names the call
\* that is marked busy: 'upload' while isUploading, 'extract' while
\* isProcessing, 'kyc' while isProcessingKyc.
C29_TitleMatchesCall ==
  variant = "kyc" =>
    /\ isUploading => processingStep = "upload"
    /\ isProcessing => processingStep = "extract"
    /\ isProcessingKyc => processingStep = "kyc"

\* C30: progress is an integer between 0 and 100 in every reachable state,
\* timers left over from earlier calls included.
C30_ProgressWithinBounds == progress \in 0..100

\* C31: a processKYC call starts its request with progress 0; while the
\* request is outstanding progress stays below 100 and rises by 10 at a
\* time, and 100 is reached only on the step that takes the response in.
C31_KycProgressBelow100 ==
  [][ /\ (kycPc = "idle" /\ kycPc' = "fetch") => progress' = 0
      /\ kycPc = "fetch" =>
           /\ progress < 100
           /\ (kycPc' = "fetch" /\ progress' > progress) =>
                progress' = progress + KycStep
           /\ (progress' = 100 /\ progress # 100) => kycPc' # "fetch" ]_vars

\* C32: where every request is answered, a started upload run and a started
\* processKYC call end, the busy flags are all false again, and a timer that
\* is live stops.
C32_RunsAndTimersEnd ==
  /\ (upPc # "idle") ~> (upPc = "idle")
  /\ (kycPc # "idle") ~> (kycPc = "idle")
  /\ (isUploading \/ isProcessing \/ isProcessingKyc) ~> NoCallRunning
  /\ \A id \in 1..MaxTimers :
       (\E t \in timers : t.id = id) ~> (\A t \in timers : t.id # id)

\* C33: while isUploading or isProcessing is true the selection panel and
\* the reset control are out of reach and no step changes the candidate file
\* list, so that the extracted documents are named after the files that were
\* uploaded.
C33_ListFrozenDuringRun ==
  /\ []((isUploading \/ isProcessing) =>
          (~IdlePanel /\ ~ResetEnabled /\ runFiles = files))
  /\ [][ (isUploading \/ isProcessing) => files' = files ]_vars
  /\ [][ (upPc = "process" /\ IsNull(extractedData) /\ ~IsNull(extractedData')) =>
           \A k \in 1..Len(Val(extractedData').documents) :
             k <= Len(files) =>
               Get(Val(extractedData').documents[k], KeyFilename)
                 = Str(uploadLog[k].name) ]_vars

\* /process_docs is outstanding for a run over two files; the list is the
\* one the run took, and nothing that edits it can be reached.
C33_Witness ==
  /\ isProcessing
  /\ Len(files) = 2
  /\ uploadLog = files
  /\ ~IdlePanel
  /\ ~ResetEnabled
  /\ ~UploadEnabled

\* C34: error is null in every state in which isUploading, isProcessing or
\* isProcessingKyc is true.
C34_NoErrorWhileBusy ==
  (isUploading \/ isProcessing \/ isProcessingKyc) => IsNull(error)

\* An upload run over one file is under way, its first request outstanding,
\* and no message is shown.
C34_Witness ==
  /\ isUploading
  /\ IsNull(error)
  /\ upPc = "upload"
  /\ Len(runFiles) = 1
  /\ i = 0

\* C35: when the files of a run have pairwise distinct names, the names in
\* the list_of_doc it posts are pairwise distinct as well.
C35_SubmittedNamesDistinct ==
  \A n \in 1..Len(processLog) :
    (\A j \in 1..Len(runFiles), k \in 1..Len(runFiles) :
       j # k => runFiles[j].name # runFiles[k].name)
    => \A j \in 1..Len(processLog[n]), k \in 1..Len(processLog[n]) :
         j # k => processLog[n][j] # processLog[n][k]

\* C36: a response string that is valid JSON once its newlines are removed
\* and it is trimmed gives its document the parsed value of that string as
\* payload, never the raw_data fallback, brace characters inside its string
\* values or not.
C36_ValidPayloadKept ==
  [][ (upPc = "process" /\ upPc' = "idle" /\ ~IsNull(extractedData')) =>
        \A k \in 1..Len(Val(extractedData').documents), str \in IngestStrings :
          LET doc == Val(extractedData').documents[k]
              parsed == JSONparse(cleanedJsonString(str))
          IN  (doc = Document(k, str) /\ parsed.ok) =>
                /\ Get(PayloadOf(doc), KeyRawData) = {}
                /\ IF variant = "kyc"
                   THEN Get(doc, KeyData) = parsed.val
                   ELSE SpreadMembers(parsed.val) \subseteq doc ]_vars

\* C37: every body posted to /process_kyc holds one entry per extracted
\* document, in document order, made of that document's filename and data
\* and of nothing else, together with the verification summary; a later call
\* for the same documents posts the same body; no step of processKYC changes
\* extractedData; and a success response makes its body the kycResult.
C37_KycBodyFromExtractedData ==
  /\ [](\A n \in 1..Len(kycLog) :
          /\ kycLog[n] = kycLog[1]
          /\ ~IsNull(extractedData) =>
               LET docs == Val(extractedData).documents
                   sent == kycLog[n].documentData
               IN  /\ Len(sent) = Len(docs)
                   /\ \A k \in 1..Len(docs) :
                        /\ Get(sent[k], KeyFilename) = Get(docs[k], KeyFilename)
                        /\ Get(sent[k], KeyData) = Get(docs[k], KeyData)
                        /\ \A e \in sent[k] : Head(e[1]) \in { KeyFilename, KeyData }
                   /\ kycLog[n].verificationSummary =
                        Val(extractedData).verificationSummary)
  /\ [][ /\ kycPc' # kycPc => extractedData' = extractedData
         /\ (kycPc = "idle" /\ kycPc' = "fetch") => Len(kycLog') = Len(kycLog) + 1
         /\ \A b \in JsonBodies :
              (KycJsonSettled(b) /\ kycResponse.ok /\ ~IsNull(b)) =>
                /\ kycResult' = b
                /\ extractedData' = extractedData ]_vars

\* Process KYC was clicked again after a failure, for two documents of
\* different names: both calls posted the same body, the second one
\* succeeded and the documents are still there.
C37_Witness ==
  /\ Len(kycLog) = 2
  /\ kycLog[1] = kycLog[2]
  /\ Len(kycLog[2].documentData) = 2
  /\ kycLog[2].documentData[1] # kycLog[2].documentData[2]
  /\ kycPc = "idle"
  /\ ~IsNull(kycResult)
  /\ ~IsNull(extractedData)

\* C38: handleRemoveFile(i) takes the entry at position i, and no other, out
\* of the candidate list, keeps the other entries in their order and changes
\* no other state variable; for an i that is no position of the list the
\* filter gives the list back as it is.
C38_RemoveExactlyOne ==
  /\ [](\A k \in { -1, Len(files), Len(files) + 1 } : RemoveAt(files, k) = files)
  /\ [][ \A k \in 0..(MaxFiles - 1) :
           handleRemoveFile(k) =>
             /\ Len(files') = Len(files) - 1
             /\ \A n \in 1..Len(files') :
                  files'[n] = IF n <= k THEN files[n] ELSE files[n + 1]
             /\ UNCHANGED << variant, isUploading, isProcessing, progress,
                             extractedData, kycResult, error, isDragOver,
                             uploadedFiles, showJson, isProcessingKyc,
                             processingStep, uploadRunVars, kycRunVars, timers,
                             nextTimer, outstanding, logVars, kycLog >> ]_vars

\* One of the two files of a run that failed has been removed from the list:
\* the names the run uploaded and its error message are still there.
C38_Witness ==
  /\ Len(files) = 1
  /\ files[1].name = NameA
  /\ Len(uploadedFiles) = 2
  /\ ~IsNull(error)
  /\ upPc = "idle"

====
